---- MODULE Spec2Model ----
(***************************************************************************)
(* Model of the VFW bill tracker's scrape -> parse -> enrich -> persist    *)
(* pipeline (get_bills.py).                                                *)
(*                                                                         *)
(* Python strings are sequences of one-character strings, so that split,   *)
(* strip, replace, lower, sorted and join are computed character by        *)
(* character as the interpreter computes them.  Python's None is PyNone,   *)
(* a variable that has not been bound yet is Unset.                        *)
(***************************************************************************)
EXTENDS Integers, Sequences, FiniteSets, TLC

(***************************************************************************)
(* Bounds of the model.                                                    *)
(***************************************************************************)
MaxRows == 2
MaxCosponsors == 2
MaxIdLen == 4

(***************************************************************************)
(* Python values.                                                          *)
(***************************************************************************)
PyNone == [tag |-> "None"]
Unset == [tag |-> "unset"]
Str(s) == [tag |-> "str", s |-> s]

\* str.strip(): leading and trailing whitespace removed
RECURSIVE LStrip(_)
LStrip(s) == IF s # <<>> /\ Head(s) = " " THEN LStrip(Tail(s)) ELSE s

RECURSIVE RStrip(_)
RStrip(s) ==
    IF s # <<>> /\ s[Len(s)] = " " THEN RStrip(SubSeq(s, 1, Len(s) - 1)) ELSE s

Strip(s) == LStrip(RStrip(s))

\* str.find(c) for a one-character c: the first index (1-based), 0 when absent
Find(s, c) ==
    IF \E k \in 1..Len(s) : s[k] = c
    THEN CHOOSE k \in 1..Len(s) : s[k] = c /\ \A j \in 1..(k - 1) : s[j] # c
    ELSE 0

\* str.split(c, 1): at most two parts, cut at the first c
SplitOnce(s, c) ==
    LET k == Find(s, c)
    IN  IF k = 0 THEN <<s>>
        ELSE <<SubSeq(s, 1, k - 1), SubSeq(s, k + 1, Len(s))>>

\* str.split(c): cut at every c; adjacent separators give empty parts
RECURSIVE SplitAll(_, _)
SplitAll(s, c) ==
    LET k == Find(s, c)
    IN  IF k = 0 THEN <<s>>
        ELSE <<SubSeq(s, 1, k - 1)>> \o SplitAll(SubSeq(s, k + 1, Len(s)), c)

StartsWith(s, p) == Len(p) <= Len(s) /\ SubSeq(s, 1, Len(p)) = p

\* str.replace(old, ''): every non-overlapping occurrence removed, left to
\* right; an empty `old` matches between characters and removes nothing
RECURSIVE Remove(_, _)
Remove(s, old) ==
    IF old = <<>> \/ s = <<>> THEN s
    ELSE IF StartsWith(s, old)
         THEN Remove(SubSeq(s, Len(old) + 1, Len(s)), old)
         ELSE <<Head(s)>> \o Remove(Tail(s), old)

\* str.lower() on one character
LowerChar(c) ==
    CASE c = "H" -> "h"
      [] c = "R" -> "r"
      [] c = "S" -> "s"
      [] c = "A" -> "a"
      [] c = "W" -> "w"
      [] c = "N" -> "n"
      [] OTHER -> c

Lower(s) == [k \in 1..Len(s) |-> LowerChar(s[k])]

\* ord(): the code points of the characters that state codes are made of
Ord(c) ==
    CASE c = "A" -> 65
      [] c = "C" -> 67
      [] c = "N" -> 78
      [] c = "T" -> 84
      [] c = "X" -> 88
      [] c = "Y" -> 89
      [] OTHER -> 0

\* str.__lt__: lexicographic order by code point
RECURSIVE StrLess(_, _)
StrLess(a, b) ==
    IF b = <<>> THEN FALSE
    ELSE IF a = <<>> THEN TRUE
    ELSE IF Ord(Head(a)) # Ord(Head(b)) THEN Ord(Head(a)) < Ord(Head(b))
    ELSE StrLess(Tail(a), Tail(b))

\* sorted(list(set(xs))): the distinct strings in ascending order
RECURSIVE Sorted(_)
Sorted(S) ==
    IF S = {} THEN <<>>
    ELSE LET m == CHOOSE x \in S : \A y \in S \ {x} : StrLess(x, y)
         IN  <<m>> \o Sorted(S \ {m})

\* sep.join(xs)
RECURSIVE Join(_, _)
Join(sep, xs) ==
    IF xs = <<>> THEN <<>>
    ELSE IF Len(xs) = 1 THEN xs[1]
    ELSE xs[1] \o sep \o Join(sep, Tail(xs))

(***************************************************************************)
(* split_bill_id: the outcome is a returned pair or a raised IndexError.   *)
(***************************************************************************)
split_bill_id(bill_id_str) ==
    LET parts == SplitAll(bill_id_str, " ")
    IN  IF Len(parts) < 2
        THEN [raised |-> "IndexError", bill_type |-> <<>>, bill_number |-> <<>>]
        ELSE [raised |-> "",
              bill_type |-> Remove(Lower(parts[1]), <<".">>),
              bill_number |-> parts[2]]

(***************************************************************************)
(* get_states_from_json: json_data is PyNone or a parsed JSON object       *)
(* [tag |-> "dict", cosponsors |-> <<entries>>], an entry's state being a  *)
(* string or PyNone (no "state" key).  None has no .get: AttributeError.   *)
(***************************************************************************)
PyList(items) == [tag |-> "list", items |-> items]

\* bool(v): None, the empty string and the empty list are falsy
Truthy(v) ==
    CASE v.tag = "None" -> FALSE
      [] v.tag = "str" -> v.s # <<>>
      [] v.tag = "list" -> v.items # <<>>
      [] OTHER -> TRUE

\* json_data.get('cosponsors', []): the key may be missing (Unset)
CosponsorList(json_data) ==
    IF json_data.cosponsors.tag = "list" THEN json_data.cosponsors.items ELSE <<>>

\* [c.get('state') for c in cosponsors if c.get('state')]
StateList(cosponsors) ==
    LET keep == {k \in 1..Len(cosponsors) : Truthy(cosponsors[k])}
        F[k \in 0..Len(cosponsors)] ==
            IF k = 0 THEN <<>>
            ELSE IF k \in keep THEN Append(F[k - 1], cosponsors[k].s)
            ELSE F[k - 1]
    IN  F[Len(cosponsors)]

Range(xs) == {xs[k] : k \in 1..Len(xs)}

\* get_states_from_json without sorted(list(set(...)))
get_states_unsorted(json_data) ==
    IF json_data.tag # "dict"
    THEN [raised |-> "AttributeError", value |-> <<>>]
    ELSE [raised |-> "",
          value |-> Join(<<",", " ">>, StateList(CosponsorList(json_data)))]

get_states_from_json(json_data) ==
    IF json_data.tag # "dict"
    THEN [raised |-> "AttributeError", value |-> <<>>]
    ELSE LET states == StateList(CosponsorList(json_data))
             unique_states == Sorted(Range(states))
         IN  [raised |-> "", value |-> Join(<<",", " ">>, unique_states)]

(***************************************************************************)
(* The HTTP exchange of one API call, as requests.get sees it: a network   *)
(* failure (RequestException), or a response with a status code and a      *)
(* body that is valid JSON (a parsed object) or not.                       *)
(***************************************************************************)
NotJson == [tag |-> "notjson"]
NetworkError == [network_error |-> TRUE, status_code |-> 0, body |-> NotJson]
Response(code, body) == [network_error |-> FALSE, status_code |-> code, body |-> body]

\* response.raise_for_status(): HTTPError for 4xx and 5xx
RaisesForStatus(response) == response.status_code \in 400..599

\* Lines 258-282: None for a RequestException (network failure, HTTPError),
\* for a status other than 200 and for a body that is not JSON
get_cosponsors(response) ==
    IF response.network_error \/ RaisesForStatus(response) THEN PyNone
    ELSE IF response.status_code = 200
         THEN IF response.body.tag = "notjson" THEN PyNone ELSE response.body
         ELSE PyNone

\* Lines 208-232: as get_cosponsors, but the parsed body is read with
\* .get('bill').get('legislationUrl'); a body without 'bill' makes the first
\* .get return None and the second raise AttributeError, which neither
\* except clause catches
legislation_url(response) ==
    IF response.network_error \/ RaisesForStatus(response)
    THEN [raised |-> "", value |-> PyNone]
    ELSE IF response.status_code = 200
         THEN IF response.body.tag = "notjson"
              THEN [raised |-> "", value |-> PyNone]
              ELSE IF response.body.bill.tag # "dict"
                   THEN [raised |-> "AttributeError", value |-> PyNone]
                   ELSE [raised |-> "", value |-> response.body.bill.legislationUrl]
         ELSE [raised |-> "", value |-> PyNone]

(***************************************************************************)
(* The inputs: what the API answers and what the page holds.               *)
(***************************************************************************)
CA == <<"C", "A">>
TX == <<"T", "X">>

\* one cosponsor entry, by its 'state': a code, or PyNone without the key
CosponsorEntries == {Str(CA), Str(TX), PyNone}

SeqsUpTo(S, n) == UNION {[1..k -> S] : k \in 0..n}

CosponsorBodies ==
    {[tag |-> "dict", cosponsors |-> PyList(xs)] :
        xs \in SeqsUpTo(CosponsorEntries, MaxCosponsors)}
    \cup {[tag |-> "dict", cosponsors |-> Unset]}

FailedResponses ==
    {NetworkError, Response(404, NotJson), Response(500, NotJson),
     Response(204, NotJson), Response(200, NotJson)}

CosponsorResponses == FailedResponses \cup {Response(200, b) : b \in CosponsorBodies}

ExampleUrl == <<"u">>

BillBodies ==
    {[tag |-> "dict", bill |-> [tag |-> "dict", legislationUrl |-> Str(ExampleUrl)]],
     [tag |-> "dict", bill |-> [tag |-> "dict", legislationUrl |-> PyNone]],
     [tag |-> "dict", bill |-> PyNone]}

BillResponses == FailedResponses \cup {Response(200, b) : b \in BillBodies}

(***************************************************************************)
(* A table row: the number of td cells, the text of the link of the first  *)
(* cell (get_text(strip=True)) or PyNone without a link, the text of the   *)
(* first span of the first cell (the session label) or PyNone, and the     *)
(* span of the second cell: PyNone without one, else its title attribute   *)
(* (Unset when the span has no title).                                     *)
(***************************************************************************)
Row(n, link, session, span) ==
    [ncells |-> n, title_link |-> link, session_span |-> session, status_span |-> span]

WeSupport == <<"W", "e", " ", "S">>
Oppose == <<"W", "e", " ", "O">>

RowFewCells == Row(1, Str(<<"H", ".", "R", ".", " ", "1", ":", " ", "A">>), PyNone, PyNone)
RowNoLink == Row(2, PyNone, PyNone, Str(WeSupport))
RowNoStatus == Row(2, Str(<<"S", ".", " ", "2", ":", " ", "B">>), PyNone, PyNone)
RowHR1 == Row(2, Str(<<"H", ".", "R", ".", " ", "1", ":", " ", "A", "9">>), Str(<<"9">>), Str(WeSupport))
RowOnlySession == Row(3, Str(<<"S", ".", " ", "2", ":", " ", "9">>), Str(<<"9">>), Unset)
RowEmptyTitle == Row(2, Str(<<"S", ".", " ", "3", ":">>), PyNone, Str(Oppose))
RowNoColon == Row(2, Str(<<"A", "c", "t">>), PyNone, Str(WeSupport))
RowEmptyNumber == Row(2, Str(<<":", " ", "A">>), PyNone, Str(WeSupport))

RowSet ==
    {RowFewCells, RowNoLink, RowNoStatus, RowHR1, RowOnlySession, RowEmptyTitle,
     RowNoColon, RowEmptyNumber}

\* The page once the browser has rendered it: which element, if any, bears
\* the class jsSpotlightContainer ("div", another element, or none), whether
\* the container holds a table, and the table's rows
Page(marker, table, rows) == [marker |-> marker, has_table |-> table, rows |-> rows]

Pages ==
    {Page("none", FALSE, <<>>), Page("other", TRUE, <<RowHR1>>), Page("div", FALSE, <<>>)}
    \cup {Page("div", TRUE, rows) : rows \in SeqsUpTo(RowSet, MaxRows)}

(***************************************************************************)
(* Lines 112-134: the fields read from one row.                            *)
(***************************************************************************)
NA == <<"N", "/", "A">>

\* Lines 114-118: at least two cells, a link in the first, a span in the second
Qualifies(row) ==
    /\ row.ncells >= 2
    /\ row.title_link # PyNone
    /\ row.status_span # PyNone

\* Lines 121-131
ParsedNumber(row) ==
    LET parts == SplitOnce(row.title_link.s, ":")
    IN  IF Len(parts) > 1 THEN Strip(parts[1]) ELSE NA

ParsedTitle(row) ==
    LET full_title == row.title_link.s
        parts == SplitOnce(full_title, ":")
        title == Strip(parts[2])
    IN  IF Len(parts) > 1
        THEN IF row.session_span # PyNone
             THEN Strip(Remove(title, row.session_span.s))
             ELSE title
        ELSE full_title

\* Lines 133-134
ParsedStatus(row) ==
    LET status == IF row.status_span = Unset THEN NA ELSE row.status_span.s
    IN  Strip(Remove(status, <<"W", "e", " ">>))

BillData(number, title, status, cosponsors, url) ==
    [bill_number |-> number, bill_title |-> title, status |-> status,
     cosponsors |-> cosponsors, url |-> url]

(***************************************************************************)
(* The output file: absent, or a header and the rows written so far.       *)
(* csv.DictWriter writes the values in fieldnames order, None as ''.       *)
(***************************************************************************)
fieldnames == <<"bill_number", "bill_title", "status", "cosponsors", "url">>

NoFile == [exists |-> FALSE, header |-> <<>>, rows |-> <<>>]
File(header, rows) == [exists |-> TRUE, header |-> header, rows |-> rows]

CsvRow(b) ==
    <<b.bill_number, b.bill_title, b.status, b.cosponsors.s,
      IF b.url.tag = "str" THEN b.url.s ELSE <<>>>>

CsvRows(bills) == [k \in 1..Len(bills) |-> CsvRow(bills[k])]

\* what an earlier run left behind
OldFile == File(fieldnames, <<<<<<"S", ".", " ", "9">>, <<"O">>, <<"S">>, CA, <<>>>>>>)

(***************************************************************************)
(* State.                                                                  *)
(***************************************************************************)
VARIABLES
    pc,          \* the position of the run
    api_key,     \* what get_api_key returned
    page,        \* the page the browser renders
    driver,      \* the browser process: "none", "live" or "quit"
    launched,    \* how many browser processes the run has started
    i,           \* the row the loop is at (1-based)
    bill_data,   \* the record being built for that row
    key,         \* bill_type, bill_number of that row
    cosponsors,  \* what get_cosponsors returned for that row
    bills,       \* the records appended so far
    exc,         \* the exception propagating to scrape's handler, "" if none
    vfw_bills,   \* what scrape_vfw_bills returned
    file,        \* vfw_bills.csv
    prior,       \* vfw_bills.csv as the run found it
    outcome,     \* what __main__ reported
    bill_id_str, \* split_bill_id called on its own: the argument
    split_ret    \* ... and its outcome

vars ==
    <<pc, api_key, page, driver, launched, i, bill_data, key, cosponsors, bills,
      exc, vfw_bills, file, prior, outcome, bill_id_str, split_ret>>

ApiKeys == {PyNone, Str(<<>>), Str(<<"k">>)}

Init ==
    /\ pc = "start"
    /\ api_key \in ApiKeys
    /\ page \in Pages
    /\ driver = "none"
    /\ launched = 0
    /\ i = 0
    /\ bill_data = Unset
    /\ key = Unset
    /\ cosponsors = Unset
    /\ bills = <<>>
    /\ exc = ""
    /\ vfw_bills = Unset
    /\ file \in {NoFile, OldFile}
    /\ prior = file
    /\ outcome = ""
    /\ bill_id_str = Unset
    /\ split_ret = Unset

scrape == <<page, driver, launched, i, bill_data, key, cosponsors, bills, exc, vfw_bills>>
persisted == <<file, prior, outcome>>
unit == <<bill_id_str, split_ret>>

(***************************************************************************)
(* scrape_vfw_bills, lines 38-160.                                         *)
(***************************************************************************)
\* Lines 58-60: the browser starts
Launch ==
    /\ pc = "start"
    /\ Truthy(api_key)
    /\ driver' = "live"
    /\ launched' = launched + 1
    /\ pc' = "get"
    /\ UNCHANGED <<api_key, page, i, bill_data, key, cosponsors, bills, exc,
                   vfw_bills, persisted, unit>>

\* Lines 61-63: it does not; None is returned before the try block
LaunchFails ==
    /\ pc = "start"
    /\ Truthy(api_key)
    /\ vfw_bills' = PyNone
    /\ pc' = "main"
    /\ UNCHANGED <<api_key, page, driver, launched, i, bill_data, key, cosponsors,
                   bills, exc, persisted, unit>>

Raise(name) ==
    /\ exc' = name
    /\ pc' = "except"

\* Line 68
DriverGet ==
    /\ pc = "get"
    /\ pc' = "wait"
    /\ UNCHANGED <<api_key, scrape, persisted, unit>>

DriverGetRaises ==
    /\ pc = "get"
    /\ Raise("WebDriverException")
    /\ UNCHANGED <<api_key, page, driver, launched, i, bill_data, key, cosponsors,
                   bills, vfw_bills, persisted, unit>>

\* Lines 74-76: an element of class jsSpotlightContainer shows up in time
WaitFound ==
    /\ pc = "wait"
    /\ page.marker # "none"
    /\ pc' = "parse"
    /\ UNCHANGED <<api_key, scrape, persisted, unit>>

\* ... or the 20 s pass and until() raises TimeoutException
WaitTimeout ==
    /\ pc = "wait"
    /\ page.marker = "none"
    /\ Raise("TimeoutException")
    /\ UNCHANGED <<api_key, page, driver, launched, i, bill_data, key, cosponsors,
                   bills, vfw_bills, persisted, unit>>

Return(value) ==
    /\ vfw_bills' = value
    /\ pc' = "finally"

\* Lines 85-89: soup.find('div', class_='jsSpotlightContainer') finds none
NoContainer ==
    /\ pc = "parse"
    /\ page.marker # "div"
    /\ Return(PyList(<<>>))
    /\ UNCHANGED <<api_key, page, driver, launched, i, bill_data, key, cosponsors,
                   bills, exc, persisted, unit>>

\* Lines 91-95
NoTable ==
    /\ pc = "parse"
    /\ page.marker = "div"
    /\ ~page.has_table
    /\ Return(PyList(<<>>))
    /\ UNCHANGED <<api_key, page, driver, launched, i, bill_data, key, cosponsors,
                   bills, exc, persisted, unit>>

\* Lines 97-101
NoRows ==
    /\ pc = "parse"
    /\ page.marker = "div"
    /\ page.has_table
    /\ page.rows = <<>>
    /\ Return(PyList(<<>>))
    /\ UNCHANGED <<api_key, page, driver, launched, i, bill_data, key, cosponsors,
                   bills, exc, persisted, unit>>

\* Lines 103-107: the loop starts
StartLoop ==
    /\ pc = "parse"
    /\ page.marker = "div"
    /\ page.has_table
    /\ page.rows # <<>>
    /\ bills' = <<>>
    /\ i' = 1
    /\ pc' = "row"
    /\ UNCHANGED <<api_key, page, driver, launched, bill_data, key, cosponsors,
                   exc, vfw_bills, persisted, unit>>

\* Lines 111-118, 143: a row that does not qualify leaves bill_data empty
SkipRow ==
    /\ pc = "row"
    /\ i <= Len(page.rows)
    /\ ~Qualifies(page.rows[i])
    /\ i' = i + 1
    /\ UNCHANGED <<pc, api_key, page, driver, launched, bill_data, key, cosponsors,
                   bills, exc, vfw_bills, persisted, unit>>

\* Lines 119-134
ParseRow ==
    /\ pc = "row"
    /\ i <= Len(page.rows)
    /\ Qualifies(page.rows[i])
    /\ bill_data' = BillData(ParsedNumber(page.rows[i]), ParsedTitle(page.rows[i]),
                             ParsedStatus(page.rows[i]), Unset, Unset)
    /\ key' = Unset
    /\ cosponsors' = Unset
    /\ pc' = "split"
    /\ UNCHANGED <<api_key, page, driver, launched, i, bills, exc, vfw_bills,
                   persisted, unit>>

\* Line 136
SplitReturns ==
    /\ pc = "split"
    /\ split_bill_id(bill_data.bill_number).raised = ""
    /\ key' = split_bill_id(bill_data.bill_number)
    /\ pc' = "cosponsors"
    /\ UNCHANGED <<api_key, page, driver, launched, i, bill_data, cosponsors, bills,
                   exc, vfw_bills, persisted, unit>>

SplitRaises ==
    /\ pc = "split"
    /\ split_bill_id(bill_data.bill_number).raised # ""
    /\ Raise(split_bill_id(bill_data.bill_number).raised)
    /\ UNCHANGED <<api_key, page, driver, launched, i, bill_data, key, cosponsors,
                   bills, vfw_bills, persisted, unit>>

\* Line 137
GetCosponsors ==
    /\ pc = "cosponsors"
    /\ \E response \in CosponsorResponses : cosponsors' = get_cosponsors(response)
    /\ pc' = "states"
    /\ UNCHANGED <<api_key, page, driver, launched, i, bill_data, key, bills, exc,
                   vfw_bills, persisted, unit>>

\* Lines 138-139
GetStates ==
    /\ pc = "states"
    /\ get_states_from_json(cosponsors).raised = ""
    /\ bill_data' = [bill_data EXCEPT
                        !.cosponsors = Str(get_states_from_json(cosponsors).value)]
    /\ pc' = "url"
    /\ UNCHANGED <<api_key, page, driver, launched, i, key, cosponsors, bills, exc,
                   vfw_bills, persisted, unit>>

GetStatesRaises ==
    /\ pc = "states"
    /\ get_states_from_json(cosponsors).raised # ""
    /\ Raise(get_states_from_json(cosponsors).raised)
    /\ UNCHANGED <<api_key, page, driver, launched, i, bill_data, key, cosponsors,
                   bills, vfw_bills, persisted, unit>>

\* Lines 141-148: the URL is fetched and the record appended
AppendBill ==
    /\ pc = "url"
    /\ \E response \in BillResponses :
          /\ legislation_url(response).raised = ""
          /\ bills' = Append(bills, [bill_data EXCEPT
                                        !.url = legislation_url(response).value])
    /\ i' = i + 1
    /\ bill_data' = Unset
    /\ key' = Unset
    /\ cosponsors' = Unset
    /\ pc' = "row"
    /\ UNCHANGED <<api_key, page, driver, launched, exc, vfw_bills, persisted, unit>>

LegislationUrlRaises ==
    /\ pc = "url"
    /\ \E response \in BillResponses :
          /\ legislation_url(response).raised # ""
          /\ Raise(legislation_url(response).raised)
    /\ UNCHANGED <<api_key, page, driver, launched, i, bill_data, key, cosponsors,
                   bills, vfw_bills, persisted, unit>>

\* Lines 150-153
EndLoop ==
    /\ pc = "row"
    /\ i > Len(page.rows)
    /\ Return(PyList(bills))
    /\ UNCHANGED <<api_key, page, driver, launched, i, bill_data, key, cosponsors,
                   bills, exc, persisted, unit>>

\* Lines 155-157
Except ==
    /\ pc = "except"
    /\ Return(PyNone)
    /\ UNCHANGED <<api_key, page, driver, launched, i, bill_data, key, cosponsors,
                   bills, exc, persisted, unit>>

\* Finally with driver.quit() at the end of the try block instead: an
\* exception skips it
FinallyQuitOnSuccessOnly ==
    /\ pc = "finally"
    /\ driver' = IF vfw_bills = PyNone THEN driver ELSE "quit"
    /\ i' = 0
    /\ bill_data' = Unset
    /\ key' = Unset
    /\ cosponsors' = Unset
    /\ bills' = <<>>
    /\ exc' = ""
    /\ pc' = "main"
    /\ UNCHANGED <<api_key, page, launched, vfw_bills, persisted, unit>>

\* Lines 158-160: the browser is quit and the call returns; its frame, and
\* with it every local, is gone
Finally ==
    /\ pc = "finally"
    /\ driver' = "quit"
    /\ i' = 0
    /\ bill_data' = Unset
    /\ key' = Unset
    /\ cosponsors' = Unset
    /\ bills' = <<>>
    /\ exc' = ""
    /\ pc' = "main"
    /\ UNCHANGED <<api_key, page, launched, vfw_bills, persisted, unit>>

(***************************************************************************)
(* __main__, lines 299-319.                                                *)
(***************************************************************************)
Report(what) ==
    /\ outcome' = what
    /\ pc' = "exit"

\* Lines 300-301: no API key, nothing runs
NoApiKey ==
    /\ pc = "start"
    /\ ~Truthy(api_key)
    /\ Report("nokey")
    /\ UNCHANGED <<api_key, scrape, file, prior, unit>>

\* WriteCsv with the file opened in mode 'a'
WriteCsvAppends ==
    /\ pc = "main"
    /\ Truthy(vfw_bills)
    /\ file' = File(fieldnames, file.rows \o CsvRows(vfw_bills.items))
    /\ Report("saved")
    /\ UNCHANGED <<api_key, scrape, prior, unit>>

\* Lines 304-313: open(filename, 'w') truncates; header, then the rows
WriteCsv ==
    /\ pc = "main"
    /\ Truthy(vfw_bills)
    /\ file' = File(fieldnames, CsvRows(vfw_bills.items))
    /\ Report("saved")
    /\ UNCHANGED <<api_key, scrape, prior, unit>>

Prefixes(xs) == {SubSeq(xs, 1, k) : k \in 0..Len(xs)}

\* Lines 308-315: IOError while opening (the file is as it was) or while
\* writing (the file is truncated and holds what was flushed)
WriteCsvFails ==
    /\ pc = "main"
    /\ Truthy(vfw_bills)
    /\ \/ file' = file
       \/ file' = File(<<>>, <<>>)
       \/ \E rows \in Prefixes(CsvRows(vfw_bills.items)) : file' = File(fieldnames, rows)
    /\ Report("ioerror")
    /\ UNCHANGED <<api_key, scrape, prior, unit>>

\* Lines 316-317
NoBills ==
    /\ pc = "main"
    /\ ~Truthy(vfw_bills)
    /\ vfw_bills # PyNone
    /\ Report("nobills")
    /\ UNCHANGED <<api_key, scrape, file, prior, unit>>

\* Failed with the file opened for writing before the result is looked at
FailedTruncates ==
    /\ pc = "main"
    /\ vfw_bills = PyNone
    /\ file' = File(fieldnames, <<>>)
    /\ Report("failed")
    /\ UNCHANGED <<api_key, scrape, prior, unit>>

\* Lines 318-319
Failed ==
    /\ pc = "main"
    /\ vfw_bills = PyNone
    /\ Report("failed")
    /\ UNCHANGED <<api_key, scrape, file, prior, unit>>

Next ==
    \/ Launch \/ LaunchFails \/ DriverGet \/ DriverGetRaises \/ WaitFound
    \/ WaitTimeout \/ NoContainer \/ NoTable \/ NoRows \/ StartLoop \/ SkipRow
    \/ ParseRow \/ SplitReturns \/ SplitRaises \/ GetCosponsors \/ GetStates
    \/ GetStatesRaises \/ AppendBill \/ LegislationUrlRaises \/ EndLoop \/ Except
    \/ Finally \/ NoApiKey \/ WriteCsv \/ WriteCsvFails \/ NoBills \/ Failed

Spec == Init /\ [][Next]_vars

(***************************************************************************)
(* split_bill_id called on its own, on every identifier over IdAlphabet of *)
(* at most MaxIdLen characters.                                            *)
(***************************************************************************)
IdAlphabet == {"H", ".", " ", "1"}

InitSplit ==
    /\ pc = "unit"
    /\ api_key = PyNone
    /\ page = Page("none", FALSE, <<>>)
    /\ driver = "none"
    /\ launched = 0
    /\ i = 0
    /\ bill_data = Unset
    /\ key = Unset
    /\ cosponsors = Unset
    /\ bills = <<>>
    /\ exc = ""
    /\ vfw_bills = Unset
    /\ file = NoFile
    /\ prior = file
    /\ outcome = ""
    /\ bill_id_str \in {Str(id) : id \in SeqsUpTo(IdAlphabet, MaxIdLen)}
    /\ split_ret = Unset

CallSplitReturns ==
    /\ pc = "unit"
    /\ split_bill_id(bill_id_str.s).raised = ""
    /\ split_ret' = split_bill_id(bill_id_str.s)
    /\ pc' = "unit_done"
    /\ UNCHANGED <<api_key, scrape, persisted, bill_id_str>>

CallSplitRaises ==
    /\ pc = "unit"
    /\ split_bill_id(bill_id_str.s).raised # ""
    /\ split_ret' = split_bill_id(bill_id_str.s)
    /\ pc' = "unit_done"
    /\ UNCHANGED <<api_key, scrape, persisted, bill_id_str>>

NextSplit == CallSplitReturns \/ CallSplitRaises

SpecSplit == InitSplit /\ [][NextSplit]_vars

(***************************************************************************)
(* Properties.                                                             *)
(***************************************************************************)
\* C1: when an API call for a bill has failed (get_cosponsors returned its
\* absent result), no exception reaches scrape's handler: the row goes on to
\* its URL with an empty cosponsors field and the rest of the record set.
C1_ApiFailureIsolated ==
    cosponsors = PyNone =>
        /\ exc = ""
        /\ pc \in {"states", "url"}
        /\ pc = "url" => bill_data.cosponsors = Str(<<>>)

\* C2: a qualifying row whose bill number does not split into two tokens
\* never aborts the run: no exception propagates while its record is built.
C2_SplitFailureCaughtPerRow ==
    (bill_data # Unset /\ split_bill_id(bill_data.bill_number).raised # "") =>
        exc = ""

\* C3: a run that was aborted (scrape_vfw_bills returned None) has not
\* created or changed the output file.
C3_AbortedRunLeavesFile == vfw_bills = PyNone => file = prior

C3_Witness ==
    /\ pc = "exit"
    /\ outcome = "failed"
    /\ driver = "quit"
    /\ prior = OldFile
    /\ file = OldFile

\* C4: a run starts at most one browser process, and once scrape_vfw_bills
\* has returned, on whatever path, no browser process is alive.
C4_BrowserReleased ==
    /\ launched <= 1
    /\ driver = "live" => launched = 1
    /\ pc \in {"main", "exit"} => driver # "live"

C4_Witness ==
    /\ pc = "main"
    /\ vfw_bills = PyNone
    /\ launched = 1
    /\ driver = "quit"

NumberTitleStatus(b) == <<b.bill_number, b.bill_title, b.status>>

ExpectedRecords(rows) ==
    LET q == SelectSeq(rows, Qualifies)
    IN  [k \in 1..Len(q) |->
            <<ParsedNumber(q[k]), ParsedTitle(q[k]), ParsedStatus(q[k])>>]

BrowserErrors == {"WebDriverException", "TimeoutException"}

\* C5: for a page whose table was read, the records returned are those of
\* the qualifying rows, all of them and in the order of the rows; the rows
\* that do not qualify are left out and abort nothing.
C5_RowIsolationAndOrder ==
    (/\ pc = "finally"
     /\ page.marker = "div"
     /\ page.has_table
     /\ exc \notin BrowserErrors) =>
        /\ vfw_bills.tag = "list"
        /\ [k \in 1..Len(vfw_bills.items) |-> NumberTitleStatus(vfw_bills.items[k])]
               = ExpectedRecords(page.rows)

\* C6: a page that loads but holds no container element returns the empty
\* list, not the None of a failed run.
C6_AbsentContainerIsEmpty ==
    (/\ pc = "finally"
     /\ page.marker = "none"
     /\ exc # "WebDriverException") =>
        vfw_bills = PyList(<<>>)

\* C7 as claimed: every run that was not aborted ends with the output file
\* holding the header and exactly this run's bills, zero bills included.
C7_EveryRunReplacesOutput ==
    (pc = "exit" /\ outcome \in {"saved", "nobills"}) =>
        /\ file.exists
        /\ file.header = fieldnames
        /\ Len(file.rows) = Len(vfw_bills.items)

\* C7 as amended: a run that scraped at least one bill and wrote it without
\* an I/O error has replaced the output by the header and one row per bill
\* in scrape order, nothing of the earlier file remaining; a run that
\* scraped no bill reports so and leaves the output as it found it.
C7_SavedRunReplacesOutput ==
    /\ (pc = "exit" /\ outcome = "saved") =>
          /\ file.exists
          /\ file.header = fieldnames
          /\ Len(vfw_bills.items) >= 1
          /\ Len(file.rows) = Len(vfw_bills.items)
          /\ \A k \in 1..Len(file.rows) :
                /\ file.rows[k][1] = vfw_bills.items[k].bill_number
                /\ file.rows[k][2] = vfw_bills.items[k].bill_title
                /\ file.rows[k][3] = vfw_bills.items[k].status
                /\ file.rows[k][4] = vfw_bills.items[k].cosponsors.s
                /\ file.rows[k][5] = IF vfw_bills.items[k].url = PyNone THEN <<>>
                                      ELSE vfw_bills.items[k].url.s
    /\ (pc = "exit" /\ outcome = "nobills") =>
          /\ vfw_bills = PyList(<<>>)
          /\ file = prior

C7_Witness ==
    /\ pc = "exit"
    /\ outcome = "saved"
    /\ prior = OldFile
    /\ Len(vfw_bills.items) = 2
    /\ Len(file.rows) = 2

\* C8: for an identifier with a space, split_bill_id returns the text before
\* the first space, lower-cased and without periods, and everything after
\* that first space unchanged.
C8_SplitOnFirstSpace ==
    (pc = "unit_done" /\ Find(bill_id_str.s, " ") > 0) =>
        LET k == Find(bill_id_str.s, " ")
            left == SubSeq(bill_id_str.s, 1, k - 1)
            right == SubSeq(bill_id_str.s, k + 1, Len(bill_id_str.s))
        IN  /\ split_ret.raised = ""
            /\ split_ret.bill_type = SelectSeq(Lower(left), LAMBDA c : c # ".")
            /\ split_ret.bill_number = right

\* C9: every record in the output has a non-empty number and a non-empty
\* title.
C9_NumberAndTitleNonEmpty ==
    \A k \in 1..Len(file.rows) : file.rows[k][1] # <<>> /\ file.rows[k][2] # <<>>

\* the codes of a cosponsors string: str.split(', ')
RECURSIVE TokensOf(_)
TokensOf(s) ==
    IF \E k \in 1..(Len(s) - 1) : s[k] = "," /\ s[k + 1] = " "
    THEN LET k == CHOOSE j \in 1..(Len(s) - 1) :
                     /\ s[j] = "," /\ s[j + 1] = " "
                     /\ \A m \in 1..(j - 1) : ~(s[m] = "," /\ s[m + 1] = " ")
         IN  <<SubSeq(s, 1, k - 1)>> \o TokensOf(SubSeq(s, k + 2, Len(s)))
    ELSE <<s>>

Ascending(toks) == \A k \in 1..(Len(toks) - 1) : StrLess(toks[k], toks[k + 1])

\* the state codes a cosponsors response carries
CodesIn(json_data) ==
    IF json_data.cosponsors.tag # "list" THEN {}
    ELSE {e.s : e \in {x \in Range(json_data.cosponsors.items) :
                          x.tag = "str" /\ x.s # <<>>}}

\* C10: the cosponsors field derived from an API answer lists each distinct
\* state code of the answer exactly once, in ascending order, and is empty
\* when no entry has a state; every record collected or written has its
\* codes strictly ascending.
C10_CosponsorStatesSortedUnique ==
    /\ pc = "url" =>
          LET codes == CodesIn(cosponsors)
              toks == TokensOf(bill_data.cosponsors.s)
          IN  IF codes = {} THEN bill_data.cosponsors.s = <<>>
              ELSE /\ Range(toks) = codes
                   /\ Len(toks) = Cardinality(codes)
                   /\ Ascending(toks)
    /\ \A k \in 1..Len(bills) : Ascending(TokensOf(bills[k].cosponsors.s))
    /\ \A k \in 1..Len(file.rows) : Ascending(TokensOf(file.rows[k][4]))

C10_Witness ==
    /\ pc = "url"
    /\ cosponsors.cosponsors = PyList(<<Str(TX), Str(CA)>>)
    /\ bill_data.cosponsors = Str(<<"C", "A", ",", " ", "T", "X">>)

====
